---------------------------- MODULE Spec2Model ----------------------------
(***************************************************************************)
(* A model of phishing_rag.py: the example index and its refresh, the      *)
(* lexical similarity, the risk scorer analyze_email_local, the            *)
(* conversation store (normalize_history, load_history, save_history) and  *)
(* the streaming generator query_generator with the clear action.          *)
(*                                                                         *)
(* Texts.  A text is a sequence of words: the maximal runs of non-blank    *)
(* characters of the string, in order, separated by single blanks.  What   *)
(* the regular expressions of the source see of a word is tabulated in     *)
(* WordInfo: its lower-cased \w+ runs (toks), whether it starts and ends   *)
(* with a word character (startsW, endsW: needed by \b and by the phrases  *)
(* that span a blank), whether it contains "http://", "https://" or        *)
(* "www." (link) and whether it contains "$" followed by a digit (dollar). *)
(*                                                                         *)
(* Numbers.  A similarity is the rational n/d kept as the record           *)
(* [n |-> n, d |-> d]; for the small token sets of the model the float     *)
(* comparison sim > 0.15 agrees with 20*n > 3*d and int(sim * 3) with      *)
(* (3*n) \div d.                                                           *)
(*                                                                         *)
(* Reports.  The string analyze_email_local returns is the sequence of its *)
(* summary lines, each a record Ln(...); query_generator reveals it one    *)
(* line per step where the source reveals one character per step.          *)
(***************************************************************************)
EXTENDS Integers, Sequences, FiniteSets, TLC

VARIABLES
    \* the scorer, analysed on its own
    sText,      \* the email text analysed last
    sIndex,     \* the index snapshot the analyses run against
    sOut,       \* <<what analyze_email_local computed for sText>>
    sPrev,      \* <<what it computed for the text before the last sentence
                \*   was added>>, or <<>>
    \* simple_similarity, on its own
    simA,       \* the first string
    simB,       \* the second string
    simOut      \* <<[ab, ba]>>: simple_similarity(simA, simB) and
                \*   simple_similarity(simB, simA), or <<>> before the calls

scoreVars == <<sText, sIndex, sOut, sPrev, simA, simB, simOut>>

VARIABLES
    \* normalize_history and the records of save_history, on their own
    nRaw,       \* the raw history handed to normalize_history
    nPc,        \* "raw", "normalized", "serialized" or "reloaded"
    nNorm,      \* normalize_history(nRaw)
    nOut,       \* the records save_history builds from nNorm
    nAgain      \* normalize_history of what json.load gives back for nOut

normVars == <<nRaw, nPc, nNorm, nOut, nAgain>>

VARIABLES
    \* the example store and the index
    csvFile,     \* CSV_FILE: [exists, rows]
    heap,        \* the dict objects: object -> entries in insertion order
    email_index, \* the global email_index: the object it is bound to
    \* load_csv, run by update_index in the scheduler thread
    ldPc,        \* "idle" or "reading" (inside the for loop of load_csv)
    ldRows,      \* rows the reader has not yielded yet
    ldParsed,    \* the object the local parsed is bound to (0: none)
    ldResult,    \* how the last load_csv ended: "none", "ok", "failed", "raised"
    \* one call of analyze_email_local, run by a request
    anPc,        \* "idle", "scanning" (inside the loop over items()) or "done"
    anText,      \* email_text
    anRef,       \* the object whose items() the loop iterates (0: none)
    anPos,       \* items the loop has passed
    anSims,      \* sims
    anOut,       \* <<locals and report at return>>, or <<>>
    \* observations of the analysis
    anSnapshot,  \* the entries email_index held when the loop began
    anScanned,   \* the entries the loop has visited
    anFresh,     \* email_index was not rebound since the loop began
    anOverlap    \* a load_csv rebound email_index in the middle of the loop

indexVars == <<csvFile, heap, email_index, ldPc, ldRows, ldParsed, ldResult>>

analysisVars ==
    <<anPc, anText, anRef, anPos, anSims, anOut, anSnapshot, anScanned, anFresh,
      anOverlap>>

VARIABLES
    \* the conversation store and the front-end
    histFile,    \* HISTORY_FILE: [t, v], t "absent", "json" (v the value
                 \* json.load returns) or "garbage" (empty or cut JSON text)
    chatbot,     \* the value of the Chatbot component: the conversation
                 \* emitted or returned to it last
    \* one invocation of query_generator
    gPc,         \* "idle"; "at197", "at204", "at208": suspended at the yield
                 \* of that line; "done" (exhausted); "cancelled" (closed
                 \* by the consumer before the final yield)
    gInput,      \* user_input
    gHistory,    \* history
    gAnswer,     \* answer
    gTyped,      \* typed
    gPos,        \* characters of answer the for loop has passed
    \* observations of the invocation
    gIncoming,   \* normalize_history(chat_history) as it began
    emitted,     \* the answer of the last turn in each state it yielded
    gLog,        \* its yields ("emit") and save_history calls ("save"), in order
    savedArg,    \* <<the history handed to save_history>>, or <<>>
    fileAtStart, \* histFile as it began, or as a clear action left it since
    \* observation of the session
    lastOp       \* the operation that ran last, [op, outcome, before]: if it
                 \* called save_history, outcome is what the file system did
                 \* and before the number of turns persisted before the call

storeVars == <<histFile, chatbot, lastOp>>

genVars ==
    <<gPc, gInput, gHistory, gAnswer, gTyped, gPos, gIncoming, emitted, gLog,
      savedArg, fileAtStart>>

vars == <<scoreVars, normVars, indexVars, analysisVars, storeVars, genVars>>

\* ------------------------------------------------------------------------
\* Bounds of the model
\* ------------------------------------------------------------------------

\* longest text, in words, the scorer specification analyses
MaxWords == 3

\* longest raw history, in items, the normalization specification draws
MaxRaw == 3

\* longest conversation, in turns, the front-end shows: an invocation is
\* started on a shorter one
MaxTurns == 2

\* longest flat sequence of role/content messages normalize_history is given
MaxMsgs == 5

\* longest string, in words, simple_similarity is called on
MaxSimWords == 2

\* dict objects alive at once (the installed index, the one a scan still
\* iterates, the one load_csv is filling)
NumObjs == 3

\* ------------------------------------------------------------------------
\* Generic helpers
\* ------------------------------------------------------------------------

Range(s) == {s[i] : i \in 1..Len(s)}

SeqsUpTo(S, n) == UNION {[1..k -> S] : k \in 0..n}

IsPrefix(s, t) == Len(s) <= Len(t) /\ SubSeq(t, 1, Len(s)) = s

RECURSIVE SumSeq(_)
SumSeq(s) == IF s = <<>> THEN 0 ELSE Head(s) + SumSeq(Tail(s))

\* ------------------------------------------------------------------------
\* Words: what re.findall(r"\w+", s.lower()) and re.search see of a word
\* ------------------------------------------------------------------------

W(toks, sw, ew, lk, dl) ==
    [toks |-> toks, startsW |-> sw, endsW |-> ew, link |-> lk, dollar |-> dl]

Lower(w) ==
    CASE w = "Your" -> "your"
      [] w = "Click" -> "click"
      [] w = "Verify" -> "verify"
      [] w = "Provide" -> "provide"
      [] w = "You" -> "you"
      [] w = "Claim" -> "claim"
      [] w = "Dear" -> "dear"
      [] w = "URGENT" -> "urgent"
      [] OTHER -> w

WordInfo(w) ==
    CASE w = "http://evil.example" ->
            W(<<"http", "evil", "example">>, TRUE, TRUE, TRUE, FALSE)
      [] w = "http://malicious.example/login" ->
            W(<<"http", "malicious", "example", "login">>, TRUE, TRUE, TRUE, FALSE)
      [] w = "account:" -> W(<<"account">>, TRUE, FALSE, FALSE, FALSE)
      [] w = "Urgent:" -> W(<<"urgent">>, TRUE, FALSE, FALSE, FALSE)
      [] w = "verify:" -> W(<<"verify">>, TRUE, FALSE, FALSE, FALSE)
      [] w = "suspended," -> W(<<"suspended">>, TRUE, FALSE, FALSE, FALSE)
      [] w = "Congratulations!" -> W(<<"congratulations">>, TRUE, FALSE, FALSE, FALSE)
      [] w = "we'll" -> W(<<"we", "ll">>, TRUE, TRUE, FALSE, FALSE)
      [] w = "invoice.pdf" -> W(<<"invoice", "pdf">>, TRUE, TRUE, FALSE, FALSE)
      [] w = "$500" -> W(<<"500">>, FALSE, TRUE, FALSE, TRUE)
      [] w = "$5" -> W(<<"5">>, FALSE, TRUE, FALSE, TRUE)
      [] w = "!!!" -> W(<<>>, FALSE, FALSE, FALSE, FALSE)
      [] OTHER -> W(<<Lower(w)>>, TRUE, TRUE, FALSE, FALSE)

\* number of digits of a token made of digits only, 0 for any other token
DigitRun(tok) ==
    CASE tok = "5" -> 1
      [] tok = "42" -> 2
      [] tok = "500" -> 3
      [] tok = "2024" -> 4
      [] OTHER -> 0

\* re.findall(r"\w+", text.lower()) as a set
Tokens(text) == UNION {Range(WordInfo(text[i]).toks) : i \in 1..Len(text)}

\* some \w+ run of the text is one of the words kws (the pattern \b(kw|...)\b)
HasWord(text, kws) == Tokens(text) \cap kws # {}

\* the pattern \b(a b)\b: a run equal to a, one blank, a run equal to b
HasPhrase(text, a, b) ==
    \E i \in 1..(Len(text) - 1) :
        LET x == WordInfo(text[i])
            y == WordInfo(text[i + 1])
        IN /\ x.endsW /\ y.startsW
           /\ x.toks[Len(x.toks)] = a
           /\ y.toks[1] = b

\* ------------------------------------------------------------------------
\* simple_similarity
\* ------------------------------------------------------------------------

Rat(n, d) == [n |-> n, d |-> d]

Max(a, b) == IF a >= b THEN a ELSE b

\* simple_similarity dividing by the tokens of a alone
SimilarityOverFirst(a, b) ==
    LET wa == Tokens(a)
        wb == Tokens(b)
    IN IF wa = {} \/ wb = {}
         THEN Rat(0, 1)
         ELSE Rat(Cardinality(wa \cap wb), Max(1, Cardinality(wa)))

simple_similarity(a, b) ==
    LET wa == Tokens(a)
        wb == Tokens(b)
    IN IF wa = {} \/ wb = {}
         THEN Rat(0, 1)
         ELSE Rat(Cardinality(wa \cap wb), Max(1, Cardinality(wa \cup wb)))

\* x > y on rationals with positive denominators
RatGt(x, y) == x.n * y.d > y.n * x.d

\* int(sim * 3)
IntTimes3(sim) == (3 * sim.n) \div sim.d


\* ------------------------------------------------------------------------
\* analyze_email_local: the five detectors
\* ------------------------------------------------------------------------

SuspiciousWords ==
    {"verify", "confirm", "urgent", "suspend", "suspended", "password", "bank",
     "account", "billing", "update", "login"}

AttachmentWords == {"attachment", "attached", "pdf", "docx", "invoice"}

\* LinkFires with "https://" written for "https?://"
LinkFiresSecureOnly(text) ==
    \E i \in 1..Len(text) :
        /\ WordInfo(text[i]).link
        /\ text[i] \notin {"http://evil.example", "http://malicious.example/login"}

\* patterns["link"]: https?://|www\.
LinkFires(text) == \E i \in 1..Len(text) : WordInfo(text[i]).link

\* patterns["suspicious_words"]
SuspiciousFires(text) ==
    \/ HasWord(text, SuspiciousWords)
    \/ HasPhrase(text, "verify", "your")
    \/ HasPhrase(text, "click", "here")
    \/ HasPhrase(text, "wire", "transfer")

\* patterns["amounts"]: \b\d{3,}\b|\$\d+
AmountsFires(text) ==
    \/ \E tok \in Tokens(text) : DigitRun(tok) >= 3
    \/ \E i \in 1..Len(text) : WordInfo(text[i]).dollar

\* patterns["attachment"]
AttachmentFires(text) == HasWord(text, AttachmentWords)

\* patterns["greeting_generic"]
GreetingFires(text) ==
    \/ HasPhrase(text, "dear", "user")
    \/ HasPhrase(text, "dear", "customer")
    \/ HasPhrase(text, "valued", "customer")

IndLink == "Contains external link(s)"
IndSuspicious == "Contains suspicious action words"
IndAmounts == "Mentions amounts or unusual numbers"
IndAttachment == "Mentions an attachment"
IndGreeting == "Generic greeting"

\* the indicators list after the five if statements, in their order
Indicators(text) ==
       (IF LinkFires(text) THEN <<IndLink>> ELSE <<>>)
    \o (IF SuspiciousFires(text) THEN <<IndSuspicious>> ELSE <<>>)
    \o (IF AmountsFires(text) THEN <<IndAmounts>> ELSE <<>>)
    \o (IF AttachmentFires(text) THEN <<IndAttachment>> ELSE <<>>)
    \o (IF GreetingFires(text) THEN <<IndGreeting>> ELSE <<>>)

\* IndicatorScore with "score = w" written for "score += w"
IndicatorScoreAssigned(text) ==
    IF GreetingFires(text) THEN 1
    ELSE IF AttachmentFires(text) THEN 1
    ELSE IF AmountsFires(text) THEN 1
    ELSE IF SuspiciousFires(text) THEN 2
    ELSE IF LinkFires(text) THEN 3
    ELSE 0

\* score after the five if statements
IndicatorScore(text) ==
      (IF LinkFires(text) THEN 3 ELSE 0)
    + (IF SuspiciousFires(text) THEN 2 ELSE 0)
    + (IF AmountsFires(text) THEN 1 ELSE 0)
    + (IF AttachmentFires(text) THEN 1 ELSE 0)
    + (IF GreetingFires(text) THEN 1 ELSE 0)

\* ------------------------------------------------------------------------
\* analyze_email_local: the similarity pass.  An index is the dict in its
\* insertion order: a sequence of [eid, subject, body, indicator], each of
\* the four a sequence of words.
\* ------------------------------------------------------------------------

top_k_context == 5

\* sorted(..., key=sim, reverse=True) is stable: x goes after every element
\* whose sim is not smaller
RECURSIVE InsertDesc(_, _)
InsertDesc(x, s) ==
    IF s = <<>> THEN <<x>>
    ELSE IF RatGt(x.sim, Head(s).sim) THEN <<x>> \o s
    ELSE <<Head(s)>> \o InsertDesc(x, Tail(s))

RECURSIVE SortDesc(_)
SortDesc(s) ==
    IF s = <<>> THEN <<>>
    ELSE InsertDesc(s[Len(s)], SortDesc(SubSeq(s, 1, Len(s) - 1)))

\* one (eid, sim, v) of the loop over email_index.items()
SimOf(text, e) ==
    [eid |-> e.eid,
     sim |-> simple_similarity(text, e.subject \o e.body),
     indicator |-> e.indicator]

\* sims: one (eid, sim, v) per entry, in the order of email_index.items()
Sims(text, idx) == [i \in 1..Len(idx) |-> SimOf(text, idx[i])]

\* SimsSorted without the slice [:top_k_context]
SimsSortedUncut(sims) == SortDesc(sims)

\* sims_sorted = sorted(sims, ...)[:top_k_context]
SimsSorted(sims) ==
    LET all == SortDesc(sims)
    IN SubSeq(all, 1, IF Len(all) < top_k_context THEN Len(all) ELSE top_k_context)

\* sim > 0.15
Kept(m) == RatGt(m.sim, Rat(15, 100))

\* similar_msgs: the kept matches, in the order of sims_sorted
SimilarMsgs(sims) == SelectSeq(SimsSorted(sims), Kept)

\* the sum of the score += int(sim * 3) of the loop over the kept matches
SimilarityBonus(similar_msgs) ==
    SumSeq([i \in 1..Len(similar_msgs) |-> IntTimes3(similar_msgs[i].sim)])

\* Risk with "score > 6" written for "score >= 6"
RiskAboveSix(score) ==
    IF score > 6 THEN "HIGH" ELSE IF score >= 3 THEN "MEDIUM" ELSE "LOW"

\* risk
Risk(score) ==
    IF score >= 6 THEN "HIGH" ELSE IF score >= 3 THEN "MEDIUM" ELSE "LOW"

ActLink == "Do not click links. Inspect carefully."
ActSuspicious == "Do not provide sensitive info. Verify sender."
ActAttachment == "Do not open attachments. Scan safely."
ActGreeting == "Generic greeting may indicate phishing."
ActNone == "No immediate danger detected; stay cautious."

\* Actions with "if not indicators" written for "if not actions"
ActionsNoneIfNoIndicator(indicators) ==
    LET has(x) == x \in Range(indicators)
        acts ==    (IF has(IndLink) THEN <<ActLink>> ELSE <<>>)
                \o (IF has(IndSuspicious) THEN <<ActSuspicious>> ELSE <<>>)
                \o (IF has(IndAttachment) THEN <<ActAttachment>> ELSE <<>>)
                \o (IF has(IndGreeting) THEN <<ActGreeting>> ELSE <<>>)
    IN IF indicators = <<>> THEN <<ActNone>> ELSE acts

\* actions
Actions(indicators) ==
    LET has(x) == x \in Range(indicators)
        acts ==    (IF has(IndLink) THEN <<ActLink>> ELSE <<>>)
                \o (IF has(IndSuspicious) THEN <<ActSuspicious>> ELSE <<>>)
                \o (IF has(IndAttachment) THEN <<ActAttachment>> ELSE <<>>)
                \o (IF has(IndGreeting) THEN <<ActGreeting>> ELSE <<>>)
    IN IF acts = <<>> THEN <<ActNone>> ELSE acts

Verdict(risk) ==
    IF risk = "HIGH" THEN "VERDICT: Likely phishing. Do not interact."
    ELSE IF risk = "MEDIUM"
      THEN "VERDICT: Possibly phishing. Verify before interacting."
    ELSE "VERDICT: Low immediate signs; stay cautious."

\* ------------------------------------------------------------------------
\* analyze_email_local: the report.  The returned string is modelled as the
\* sequence of its pieces, one per element of summary_lines: Ln(k, s, t, n, d)
\* stands for the characters of one line and of the "\n" that joins it (k the
\* kind of line, s and t the strings and n, d the numbers formatted into it).
\* ------------------------------------------------------------------------

Ln(k, s, t, n, d) == [k |-> k, s |-> s, t |-> t, n |-> n, d |-> d]

\* the locals of analyze_email_local before the summary is built, sims being
\* what the loop over email_index.items() collected
LocalsFrom(text, sims) ==
    LET indicators == Indicators(text)
        similar_msgs == SimilarMsgs(sims)
        base == IndicatorScore(text)
        score == base + SimilarityBonus(similar_msgs)
        risk == Risk(score)
    IN [text |-> text,
        indicators |-> indicators,
        base |-> base,
        similar_msgs |-> similar_msgs,
        score |-> score,
        risk |-> risk,
        actions |-> Actions(indicators)]

Locals(text, idx) == LocalsFrom(text, Sims(text, idx))

\* "\n".join(summary_lines)
Summary(v) ==
       <<Ln("title", <<"Phishing Analysis (Local Simulator)">>, <<>>, 0, 0),
         Ln("risk", <<v.risk>>, <<>>, v.score, 0)>>
    \o (IF v.indicators # <<>>
          THEN <<Ln("head", <<"Detected indicators:">>, <<>>, 0, 0)>>
               \o [i \in 1..Len(v.indicators) |->
                     Ln("indicator", <<v.indicators[i]>>, <<>>, i, 0)]
          ELSE <<Ln("head", <<"Detected indicators: None obvious (heuristic scan)">>,
                    <<>>, 0, 0)>>)
    \o (IF v.similar_msgs # <<>>
          THEN <<Ln("head", <<"Similar known examples from CSV:">>, <<>>, 0, 0)>>
               \o [i \in 1..Len(v.similar_msgs) |->
                     Ln("similar", v.similar_msgs[i].eid, v.similar_msgs[i].indicator,
                        v.similar_msgs[i].sim.n, v.similar_msgs[i].sim.d)]
          ELSE <<>>)
    \o <<Ln("head", <<"Recommended actions:">>, <<>>, 0, 0)>>
    \o [i \in 1..Len(v.actions) |-> Ln("action", <<v.actions[i]>>, <<>>, i, 0)]
    \o <<Ln("verdict", <<Verdict(v.risk)>>, <<>>, 0, 0)>>

analyze_email_local(text, idx) == Summary(Locals(text, idx))

\* ------------------------------------------------------------------------
\* Indexes and texts the specifications draw from
\* ------------------------------------------------------------------------

Entry(eid, subject, body, indicator) ==
    [eid |-> eid, subject |-> subject, body |-> body, indicator |-> indicator]

EmptyIndex == <<>>

\* the words the analysed texts are made of
Vocab ==
    {"http://evil.example", "Verify", "invoice.pdf", "$500", "Dear", "customer",
     "claim", "prize"}

Texts == SeqsUpTo(Vocab, MaxWords)


\* ------------------------------------------------------------------------
\* Values of a raw history (what json.load returns, or what the front-end
\* hands over).  A string is the sequence of its pieces; None and numbers
\* are kept apart from strings, str() converts them.
\* ------------------------------------------------------------------------

StrVal(s) == [t |-> "str", s |-> s]
NoneVal == [t |-> "none", s |-> <<>>]
IntVal(digits) == [t |-> "int", s |-> digits]
ListVal(items) == [t |-> "list", d |-> items]
DictVal(rec) == [t |-> "dict", d |-> rec]

\* str(x) for a string, None or an int
Str(x) == IF x.t = "none" THEN <<"None">> ELSE x.s

\* bool(x)
Truthy(x) ==
    CASE x.t = "list" -> x.d # <<>>
      [] x.t = "dict" -> DOMAIN x.d # {}
      [] x.t = "str" -> x.s # <<>>
      [] x.t = "int" -> x.s # <<"0">>
      [] OTHER -> FALSE

HasKey(x, key) == x.t = "dict" /\ key \in DOMAIN x.d

\* ------------------------------------------------------------------------
\* normalize_history
\* ------------------------------------------------------------------------

\* the loop over a role/content sequence: pair is <<>> or the open [text, ""]
\* PairLoop without the "pair = []" that follows out.append(pair)
RECURSIVE PairLoopKeepsPair(_, _, _)
PairLoopKeepsPair(msgs, pair, out) ==
    IF msgs = <<>> THEN out
    ELSE LET msg == Head(msgs).d
             role == msg.role
             text == Str(msg.content)
         IN IF role = StrVal(<<"user">>)
              THEN PairLoopKeepsPair(Tail(msgs), <<text, <<>>>>, out)
            ELSE IF role \in {StrVal(<<"assistant">>), StrVal(<<"system">>)}
              THEN IF pair # <<>>
                     THEN PairLoopKeepsPair(Tail(msgs), pair,
                                            Append(out, <<pair[1], text>>))
                     ELSE PairLoopKeepsPair(Tail(msgs), pair, out)
            ELSE PairLoopKeepsPair(Tail(msgs), pair, out)

RECURSIVE PairLoop(_, _, _)
PairLoop(msgs, pair, out) ==
    IF msgs = <<>> THEN out
    ELSE LET msg == Head(msgs).d
             role == msg.role
             text == Str(msg.content)
         IN IF role = StrVal(<<"user">>)
              THEN PairLoop(Tail(msgs), <<text, <<>>>>, out)
            ELSE IF role \in {StrVal(<<"assistant">>), StrVal(<<"system">>)}
              THEN IF pair # <<>>
                     THEN PairLoop(Tail(msgs), <<>>, Append(out, <<pair[1], text>>))
                     ELSE PairLoop(Tail(msgs), pair, out)
            ELSE PairLoop(Tail(msgs), pair, out)

\* what one item of a list adds to out in the second loop
ItemTurns(item) ==
    IF item.t = "list" /\ Len(item.d) >= 2
      THEN <<<<Str(item.d[1]), Str(item.d[2])>>>>
    ELSE IF item.t = "dict"
      THEN IF HasKey(item, "user") /\ HasKey(item, "assistant")
             THEN <<<<Str(item.d.user), Str(item.d.assistant)>>>>
           ELSE IF HasKey(item, "question") /\ HasKey(item, "answer")
             THEN <<<<Str(item.d.question), Str(item.d.answer)>>>>
           ELSE <<>>
    ELSE <<>>

RECURSIVE ItemLoop(_)
ItemLoop(items) ==
    IF items = <<>> THEN <<>> ELSE ItemTurns(Head(items)) \o ItemLoop(Tail(items))

normalize_history(raw) ==
    IF ~Truthy(raw) THEN <<>>
    ELSE IF raw.t # "list" THEN <<>>
    ELSE IF \A i \in 1..Len(raw.d) :
               HasKey(raw.d[i], "role") /\ HasKey(raw.d[i], "content")
      THEN PairLoop(raw.d, <<>>, <<>>)
    ELSE ItemLoop(raw.d)

\* ------------------------------------------------------------------------
\* save_history: the records written
\* ------------------------------------------------------------------------

\* HistoryRecord with the answer stored under "answer"
HistoryRecordAnswerKey(h) ==
    DictVal([user |-> StrVal(h[1]),
             answer |-> StrVal(IF Len(h) > 1 THEN h[2] ELSE <<>>)])

\* {"user": h[0], "assistant": h[1] if len(h) > 1 else ""}
HistoryRecord(h) ==
    DictVal([user |-> StrVal(h[1]),
             assistant |-> StrVal(IF Len(h) > 1 THEN h[2] ELSE <<>>)])

\* out = [... for h in history], as json.dump writes and json.load reads it
HistoryRecords(history) ==
    ListVal([i \in 1..Len(history) |-> HistoryRecord(history[i])])

\* ------------------------------------------------------------------------
\* Normalization on its own: a raw history is normalized, serialized as
\* save_history does, and normalized again.
\* ------------------------------------------------------------------------

\* contents of a message, an element of a pair, a value of a record
RawVals == {StrVal(<<"a">>), StrVal(<<>>), NoneVal, IntVal(<<"7">>)}

Msg(role, content) == DictVal([role |-> StrVal(<<role>>), content |-> content])

RawItems ==
    {Msg("user", StrVal(<<"q">>)), Msg("user", IntVal(<<"7">>)),
     Msg("assistant", StrVal(<<"a">>)), Msg("assistant", NoneVal),
     Msg("system", StrVal(<<"s">>)), Msg("tool", StrVal(<<"t">>)),
     ListVal(<<StrVal(<<"q">>), StrVal(<<"a">>)>>),
     ListVal(<<StrVal(<<"q">>), NoneVal>>),
     ListVal(<<IntVal(<<"7">>), StrVal(<<>>), StrVal(<<"x">>)>>),
     ListVal(<<StrVal(<<"q">>)>>),
     DictVal([user |-> StrVal(<<"q">>), assistant |-> StrVal(<<"a">>)]),
     DictVal([user |-> StrVal(<<"q">>), assistant |-> NoneVal]),
     DictVal([question |-> StrVal(<<"q">>), answer |-> IntVal(<<"7">>)]),
     DictVal([user |-> StrVal(<<"q">>)]),
     StrVal(<<"a">>)}

Raws == {ListVal(items) : items \in SeqsUpTo(RawItems, MaxRaw)} \cup {NoneVal}

\* the normalization variables, at rest in the other specifications
NormIdle ==
    /\ nRaw = NoneVal
    /\ nPc = "idle"
    /\ nNorm = <<>>
    /\ nOut = NoneVal
    /\ nAgain = <<>>

Normalize ==
    /\ nPc = "raw"
    /\ nNorm' = normalize_history(nRaw)
    /\ nPc' = "normalized"
    /\ UNCHANGED <<nRaw, nOut, nAgain, scoreVars, indexVars, analysisVars, storeVars, genVars>>

Serialize ==
    /\ nPc = "normalized"
    /\ nOut' = HistoryRecords(nNorm)
    /\ nPc' = "serialized"
    /\ UNCHANGED <<nRaw, nNorm, nAgain, scoreVars, indexVars, analysisVars, storeVars, genVars>>

Renormalize ==
    /\ nPc = "serialized"
    /\ nAgain' = normalize_history(nOut)
    /\ nPc' = "reloaded"
    /\ UNCHANGED <<nRaw, nNorm, nOut, scoreVars, indexVars, analysisVars, storeVars, genVars>>

NormNext == Normalize \/ Serialize \/ Renormalize

\* ------------------------------------------------------------------------
\* The example store.  A row of the CSV is [bad, id, subject, body,
\* indicator]: a field is a sequence of words in which " " stands for white
\* space str.strip() removes at either end; a missing field (None) and an
\* empty one are both <<>>; bad marks a row the reader raises on (bytes that
\* are not UTF-8, a csv.Error).
\* ------------------------------------------------------------------------

Row(id, subject, body, indicator) ==
    [bad |-> FALSE, id |-> id, subject |-> subject, body |-> body,
     indicator |-> indicator]

BadRow == [bad |-> TRUE, id |-> <<>>, subject |-> <<>>, body |-> <<>>, indicator |-> <<>>]

\* the rows ensure_csv_exists writes under the header
SeedRows ==
    << Row(<<"E001">>, <<"Your", "account", "has", "been", "suspended">>,
           <<"Click", "this", "link", "to", "restore", "your", "account:",
             "http://malicious.example/login">>,
           <<"Suspicious", "link">>),
       Row(<<"E002">>, <<"Urgent:", "Verify", "your", "payment", "info">>,
           <<"Provide", "your", "bank", "details", "now", "or", "we'll",
             "close", "your", "account">>,
           <<"Sensitive", "info", "request">>),
       Row(<<"E003">>, <<"Congratulations!", "You", "won", "a", "gift", "card">>,
           <<"Claim", "your", "prize", "by", "clicking", "here">>,
           <<"Unsolicited", "reward">>) >>

\* s.strip()
RECURSIVE StripLeft(_)
StripLeft(f) == IF f # <<>> /\ Head(f) = " " THEN StripLeft(Tail(f)) ELSE f

RECURSIVE StripRight(_)
StripRight(f) ==
    IF f # <<>> /\ f[Len(f)] = " " THEN StripRight(SubSeq(f, 1, Len(f) - 1)) ELSE f

Strip(f) == StripRight(StripLeft(f))

\* parsed[key] = value: a new key goes last, a known key keeps its place
Put(dict, e) ==
    IF \E i \in 1..Len(dict) : dict[i].eid = e.eid
      THEN [i \in 1..Len(dict) |-> IF dict[i].eid = e.eid THEN e ELSE dict[i]]
      ELSE Append(dict, e)

\* the body of the for loop of load_csv for one row that was read
ParseRow(dict, r) ==
    IF r.id # <<>>
      THEN Put(dict, Entry(Strip(r.id), Strip(r.subject), Strip(r.body),
                           Strip(r.indicator)))
      ELSE dict

RECURSIVE ParseRows(_, _)
ParseRows(dict, rows) ==
    IF rows = <<>> THEN dict ELSE ParseRows(ParseRow(dict, Head(rows)), Tail(rows))

\* a user's file: padded fields, a row without id, an id given twice
UserRows ==
    << Row(<<" ", "S1">>, <<"Claim", " ">>, <<"old">>, <<"Unsolicited", "reward">>),
       Row(<<>>, <<"no", "id">>, <<"prize">>, <<"Skipped">>),
       Row(<<"S2">>, <<"Verify">>, <<" ", "your", "bank">>,
           <<"Sensitive", "info", "request">>),
       Row(<<"S1">>, <<"Claim">>, <<"prize">>, <<"Unsolicited", "reward", " ">>) >>

\* a file with a row the reader raises on, after a good one
BrokenRows ==
    << Row(<<"B1">>, <<"claim">>, <<"prize", "now">>, <<"Unsolicited", "reward">>),
       BadRow >>

\* the index load_csv builds from the sample file
SeedIndex == ParseRows(<<>>, SeedRows)

\* the index it builds from the user's file: S1 Claim/prize, S2 Verify/your bank
ShortIndex == ParseRows(<<>>, UserRows)

\* an index of more than top_k_context examples, not in the order of their
\* similarity to any text, two of them with the same words
LongIndex ==
    << Entry(<<"K7">>, <<"prize", "Dear", "customer">>,
             <<"Verify", "$500", "invoice.pdf">>, <<"Seven">>),
       Entry(<<"K3">>, <<"claim">>, <<>>, <<"Three">>),
       Entry(<<"K6">>, <<"claim", "Verify">>, <<"Dear", "customer">>, <<"Six">>),
       Entry(<<"K1">>, <<"claim">>, <<"prize">>, <<"One">>),
       Entry(<<"K5">>, <<"prize">>, <<"Verify">>, <<"Five">>),
       Entry(<<"K2">>, <<"claim", "prize">>, <<"Dear">>, <<"Two">>),
       Entry(<<"K4">>, <<"Claim">>, <<>>, <<"Four">>) >>

\* the snapshots the scorer specification analyses against
IndexChoices == {EmptyIndex, SeedIndex, ShortIndex}

File(rows) == [exists |-> TRUE, rows |-> rows]
NoFile == [exists |-> FALSE, rows |-> <<>>]

CsvChoices == {NoFile, File(SeedRows), File(UserRows), File(BrokenRows)}

\* ------------------------------------------------------------------------
\* The dict objects.  An object no reference reaches holds <<>>, so binding
\* a name to it is the creation of a new empty dict.
\* ------------------------------------------------------------------------

ObjIds == 1..NumObjs

Live(idx, parsed, ref) == {idx, parsed, ref} \ {0}

Collect(h, live) == [o \in ObjIds |-> IF o \in live THEN h[o] ELSE <<>>]

\* a new dict, for a caller that keeps the references keep
NewDict(keep) == CHOOSE o \in ObjIds \ keep : \A p \in ObjIds \ keep : o <= p

\* ------------------------------------------------------------------------
\* ensure_csv_exists and load_csv
\* ------------------------------------------------------------------------

\* the file after ensure_csv_exists returned
ensure_csv_exists(file) == IF file.exists THEN file ELSE File(SeedRows)

\* ParsedObject, the loop filling the installed dict itself
ParsedObjectInPlace == email_index

\* parsed = {}
ParsedObject == NewDict(Live(email_index, 0, anRef))

\* IndexAfterFailure, the handler leaving email_index as it is
IndexAfterFailureKept == email_index

\* email_index = {} of the except clause
IndexAfterFailure == NewDict(Live(email_index, 0, anRef))

\* the loop over the items has passed some items and not all
MidScan == anPc = "scanning" /\ 0 < anPos /\ anPos < Len(heap[anRef])

\* the except clause: log, email_index = {} (parsed goes out of scope)
LoadFails ==
    /\ email_index' = IndexAfterFailure
    /\ heap' = Collect(Collect(heap, Live(email_index, 0, anRef)),
                       Live(email_index', 0, anRef))
    /\ ldPc' = "idle"
    /\ ldRows' = <<>>
    /\ ldParsed' = 0
    /\ ldResult' = "failed"
    /\ anFresh' = FALSE
    /\ anOverlap' = (anOverlap \/ MidScan)

\* load_csv up to the first row: ensure_csv_exists, open, parsed = {}.
\* Writing the sample file can fail (the error leaves load_csv: the call is
\* outside the try), and so can open.
LoadBegin(outcome) ==
    /\ ldPc = "idle"
    /\ \/ /\ outcome = "seed_failed"
          /\ ~csvFile.exists
          /\ ldResult' = "raised"
          /\ UNCHANGED <<csvFile, heap, email_index, ldPc, ldRows, ldParsed,
                         anFresh, anOverlap>>
       \/ /\ outcome = "open_failed"
          /\ csvFile' = ensure_csv_exists(csvFile)
          /\ LoadFails
       \/ /\ outcome = "opened"
          /\ csvFile' = ensure_csv_exists(csvFile)
          /\ ldParsed' = ParsedObject
          /\ heap' = [heap EXCEPT ![ldParsed'] = <<>>]
          /\ ldRows' = csvFile'.rows
          /\ ldPc' = "reading"
          /\ UNCHANGED <<email_index, ldResult, anFresh, anOverlap>>
    /\ UNCHANGED <<anPc, anText, anRef, anPos, anSims, anOut, anSnapshot, anScanned>>
    /\ UNCHANGED <<scoreVars, normVars, storeVars, genVars>>

\* one turn of the for loop
LoadRow ==
    /\ ldPc = "reading"
    /\ ldRows # <<>>
    /\ IF Head(ldRows).bad
         THEN LoadFails
         ELSE /\ heap' = [heap EXCEPT ![ldParsed] = ParseRow(@, Head(ldRows))]
              /\ ldRows' = Tail(ldRows)
              /\ UNCHANGED <<email_index, ldPc, ldParsed, ldResult, anFresh, anOverlap>>
    /\ UNCHANGED <<csvFile>>
    /\ UNCHANGED <<anPc, anText, anRef, anPos, anSims, anOut, anSnapshot, anScanned>>
    /\ UNCHANGED <<scoreVars, normVars, storeVars, genVars>>

\* email_index = parsed
LoadInstall ==
    /\ ldPc = "reading"
    /\ ldRows = <<>>
    /\ email_index' = ldParsed
    /\ heap' = Collect(heap, Live(email_index', 0, anRef))
    /\ ldPc' = "idle"
    /\ ldParsed' = 0
    /\ ldResult' = "ok"
    /\ anFresh' = FALSE
    /\ anOverlap' = (anOverlap \/ MidScan)
    /\ UNCHANGED <<csvFile, ldRows>>
    /\ UNCHANGED <<anPc, anText, anRef, anPos, anSims, anOut, anSnapshot, anScanned>>
    /\ UNCHANGED <<scoreVars, normVars, storeVars, genVars>>

\* the file is replaced or removed by its owner
EditCsv(file) ==
    /\ file # csvFile
    /\ csvFile' = file
    /\ UNCHANGED <<heap, email_index, ldPc, ldRows, ldParsed, ldResult>>
    /\ UNCHANGED <<analysisVars, scoreVars, normVars, storeVars, genVars>>

\* ------------------------------------------------------------------------
\* analyze_email_local as the request thread runs it
\* ------------------------------------------------------------------------

\* "Your account has been suspended, click here to verify:
\* http://evil.example"
ExampleText ==
    <<"Your", "account", "has", "been", "suspended,", "click", "here", "to",
      "verify:", "http://evil.example">>

\* the texts the requests analyse
AnTexts == {<<"claim", "prize">>, <<"Verify", "http://evil.example">>, ExampleText}

\* up to "for eid, v in email_index.items()": the global is read once
AnStart(text) ==
    /\ anPc \in {"idle", "done"}
    /\ anPc' = "scanning"
    /\ anText' = text
    /\ anRef' = email_index
    /\ anPos' = 0
    /\ anSims' = <<>>
    /\ anOut' = <<>>
    /\ anSnapshot' = heap[email_index]
    /\ anScanned' = <<>>
    /\ anFresh' = TRUE
    /\ anOverlap' = FALSE
    /\ UNCHANGED <<indexVars, scoreVars, normVars, storeVars, genVars>>

\* one turn of the loop over the items
AnScan ==
    /\ anPc = "scanning"
    /\ anPos < Len(heap[anRef])
    /\ LET e == heap[anRef][anPos + 1]
       IN /\ anSims' = Append(anSims, SimOf(anText, e))
          /\ anScanned' = Append(anScanned, e)
    /\ anPos' = anPos + 1
    /\ UNCHANGED <<anPc, anText, anRef, anOut, anSnapshot, anFresh, anOverlap>>
    /\ UNCHANGED <<indexVars, scoreVars, normVars, storeVars, genVars>>

\* the loop ends; sort, score, summary, return
AnFinish ==
    /\ anPc = "scanning"
    /\ anPos >= Len(heap[anRef])
    /\ LET v == LocalsFrom(anText, anSims)
       IN anOut' = <<[locals |-> v, report |-> Summary(v)]>>
    /\ anPc' = "done"
    /\ anRef' = 0
    /\ heap' = Collect(heap, Live(email_index, ldParsed, 0))
    /\ UNCHANGED <<anText, anPos, anSims, anSnapshot, anScanned, anFresh, anOverlap>>
    /\ UNCHANGED <<csvFile, email_index, ldPc, ldRows, ldParsed, ldResult>>
    /\ UNCHANGED <<scoreVars, normVars, storeVars, genVars>>

\* the index and load_csv, at rest in the other specifications
IndexIdle ==
    /\ csvFile = NoFile
    /\ heap = [o \in ObjIds |-> <<>>]
    /\ email_index = 1
    /\ ldPc = "idle"
    /\ ldRows = <<>>
    /\ ldParsed = 0
    /\ ldResult = "none"

AnalysisIdle ==
    /\ anPc = "idle"
    /\ anText = <<>>
    /\ anRef = 0
    /\ anPos = 0
    /\ anSims = <<>>
    /\ anOut = <<>>
    /\ anSnapshot = <<>>
    /\ anScanned = <<>>
    /\ anFresh = FALSE
    /\ anOverlap = FALSE

\* ------------------------------------------------------------------------
\* load_history and save_history
\* ------------------------------------------------------------------------

Absent == [t |-> "absent", v |-> NoneVal]
Garbage == [t |-> "garbage", v |-> NoneVal]
Json(v) == [t |-> "json", v |-> v]

\* load_history: [] when the file is absent, [] when json.load raises
load_history(file) ==
    IF file.t = "json" THEN normalize_history(file.v) ELSE <<>>

\* HISTORY_FILE after save_history(history).  The call returns in every
\* case; outcome is what the file system did: "ok"; "open_failed" (open
\* raised, nothing touched); "write_failed" (open had truncated the file,
\* then json.dump or the closing flush raised).
save_history(file, history, outcome) ==
    CASE outcome = "ok" -> Json(HistoryRecords(history))
      [] outcome = "open_failed" -> file
      [] outcome = "write_failed" -> Garbage

SaveOutcomes == {"ok", "open_failed", "write_failed"}

\* the observation of one operation that calls save_history, and of one that
\* does not
SaveOp(op, outcome) ==
    [op |-> op, outcome |-> outcome, before |-> Len(load_history(histFile))]

Op(op) == [op |-> op, outcome |-> "none", before |-> 0]

\* ------------------------------------------------------------------------
\* query_generator and the front-end
\* ------------------------------------------------------------------------

\* the conversation as the Chatbot hands it over: a list of [user, bot] lists
ToChat(conv) ==
    ListVal([i \in 1..Len(conv) |->
                ListVal(<<StrVal(conv[i][1]), StrVal(conv[i][2])>>)])

\* the email submitted
Queries == {<<"customer">>}

\* NewHistory, the earlier turns forgotten
NewHistoryAlone(norm, user_input) == <<<<user_input, <<>>>>>>

\* history after history.append([user_input, ""])
NewHistory(norm, user_input) == Append(norm, <<user_input, <<>>>>)

\* ExtendTyped with "typed = ch" written for "typed += ch"
ExtendTypedAssigned(typed, ch) == <<ch>>

\* typed += ch
ExtendTyped(typed, ch) == Append(typed, ch)

\* history[-1][1] = typed
SetAnswer(history, typed) == [history EXCEPT ![Len(history)][2] = typed]

\* yield history, history, "": the front-end shows it
Yield(history) ==
    /\ chatbot' = history
    /\ emitted' = Append(emitted, history[Len(history)][2])

\* the front-end calls query_generator(user_input, chat_history) and asks for
\* the first state: lines 195 to 197
Invoke(user_input) ==
    /\ gPc \in {"idle", "done", "cancelled"}
    /\ Len(chatbot) < MaxTurns
    /\ LET norm == normalize_history(ToChat(chatbot))
       IN /\ gIncoming' = norm
          /\ gHistory' = NewHistory(norm, user_input)
    /\ gInput' = user_input
    /\ gAnswer' = <<>>
    /\ gTyped' = <<>>
    /\ gPos' = 0
    /\ chatbot' = gHistory'
    /\ emitted' = <<gHistory'[Len(gHistory')][2]>>
    /\ gLog' = <<"emit">>
    /\ savedArg' = <<>>
    /\ fileAtStart' = histFile
    /\ gPc' = "at197"
    /\ lastOp' = Op("invoke")
    /\ UNCHANGED histFile
    /\ UNCHANGED <<scoreVars, normVars, indexVars, analysisVars>>

\* answer when the generator is resumed: computed on the first resumption
AnswerNow ==
    IF gPc = "at197" THEN analyze_email_local(gInput, heap[email_index]) ELSE gAnswer

\* Stream with save_history(history) inside the loop
StreamSaving ==
    /\ gPc \in {"at197", "at204"}
    /\ gPos < Len(AnswerNow)
    /\ gAnswer' = AnswerNow
    /\ gTyped' = ExtendTyped(gTyped, gAnswer'[gPos + 1])
    /\ gPos' = gPos + 1
    /\ gHistory' = SetAnswer(gHistory, gTyped')
    /\ Yield(gHistory')
    /\ histFile' = save_history(histFile, gHistory', "ok")
    /\ savedArg' = <<gHistory'>>
    /\ gLog' = gLog \o <<"emit", "save">>
    /\ gPc' = "at204"
    /\ lastOp' = SaveOp("stream", "ok")
    /\ UNCHANGED <<gInput, gIncoming, fileAtStart>>
    /\ UNCHANGED <<scoreVars, normVars, indexVars, analysisVars>>

\* the front-end asks for the next state and the loop has a character left:
\* lines 199 to 204
Stream ==
    /\ gPc \in {"at197", "at204"}
    /\ gPos < Len(AnswerNow)
    /\ gAnswer' = AnswerNow
    /\ gTyped' = ExtendTyped(gTyped, gAnswer'[gPos + 1])
    /\ gPos' = gPos + 1
    /\ gHistory' = SetAnswer(gHistory, gTyped')
    /\ Yield(gHistory')
    /\ gLog' = Append(gLog, "emit")
    /\ gPc' = "at204"
    /\ lastOp' = Op("stream")
    /\ UNCHANGED <<gInput, gIncoming, savedArg, fileAtStart>>
    /\ UNCHANGED histFile
    /\ UNCHANGED <<scoreVars, normVars, indexVars, analysisVars>>

\* Finalize without the call of save_history
FinalizeUnsaved ==
    /\ gPc \in {"at197", "at204"}
    /\ gPos >= Len(AnswerNow)
    /\ gAnswer' = AnswerNow
    /\ Yield(gHistory)
    /\ gLog' = Append(gLog, "emit")
    /\ gPc' = "at208"
    /\ lastOp' = Op("finalize")
    /\ UNCHANGED <<gInput, gHistory, gTyped, gPos, gIncoming, savedArg, fileAtStart>>
    /\ UNCHANGED histFile
    /\ UNCHANGED <<scoreVars, normVars, indexVars, analysisVars>>

\* the front-end asks for the next state and the loop has ended: lines 207
\* and 208, save_history(history) and then the last yield
Finalize ==
    /\ gPc \in {"at197", "at204"}
    /\ gPos >= Len(AnswerNow)
    /\ gAnswer' = AnswerNow
    /\ \E outcome \in SaveOutcomes :
          /\ histFile' = save_history(histFile, gHistory, outcome)
          /\ lastOp' = SaveOp("finalize", outcome)
    /\ savedArg' = <<gHistory>>
    /\ Yield(gHistory)
    /\ gLog' = gLog \o <<"save", "emit">>
    /\ gPc' = "at208"
    /\ UNCHANGED <<gInput, gHistory, gTyped, gPos, gIncoming, fileAtStart>>
    /\ UNCHANGED <<scoreVars, normVars, indexVars, analysisVars>>

\* the front-end asks once more: the generator returns
Exhaust ==
    /\ gPc = "at208"
    /\ gPc' = "done"
    /\ lastOp' = Op("exhaust")
    /\ UNCHANGED <<gInput, gHistory, gAnswer, gTyped, gPos, gIncoming, emitted, gLog,
                   savedArg, fileAtStart>>
    /\ UNCHANGED <<histFile, chatbot, scoreVars, normVars, indexVars, analysisVars>>

\* the consumer stops asking before the final state: the generator is closed
\* where it is suspended
Cancel ==
    /\ gPc \in {"at197", "at204"}
    /\ gPc' = "cancelled"
    /\ lastOp' = Op("cancel")
    /\ UNCHANGED <<gInput, gHistory, gAnswer, gTyped, gPos, gIncoming, emitted, gLog,
                   savedArg, fileAtStart>>
    /\ UNCHANGED <<histFile, chatbot, scoreVars, normVars, indexVars, analysisVars>>

\* ClearedHistory, the conversation shown saved in place of []
ClearedHistoryShown == chatbot

\* the [] of save_history([])
ClearedHistory == <<>>

\* clear_history, the handler of the Clear Chat button
clear_history ==
    /\ \E outcome \in SaveOutcomes :
          /\ histFile' = save_history(histFile, ClearedHistory, outcome)
          /\ lastOp' = SaveOp("clear", outcome)
    /\ chatbot' = <<>>
    /\ fileAtStart' = histFile'
    /\ IF gPc \in {"at197", "at204", "at208"}
       THEN UNCHANGED <<gPc, gInput, gHistory, gAnswer, gTyped, gPos, gIncoming,
                        emitted, gLog, savedArg>>
       ELSE \* no generator is suspended: what is left of the last one and
            \* the record of its invocation are dropped
            /\ gPc' = "idle"
            /\ gInput' = <<>>
            /\ gHistory' = <<>>
            /\ gAnswer' = <<>>
            /\ gTyped' = <<>>
            /\ gPos' = 0
            /\ gIncoming' = <<>>
            /\ emitted' = <<>>
            /\ gLog' = <<>>
            /\ savedArg' = <<>>
    /\ UNCHANGED <<scoreVars, normVars, indexVars, analysisVars>>

\* the store and the generator, at rest in the other specifications
NoOp == Op("none")

StoreIdle ==
    /\ histFile = Absent
    /\ chatbot = <<>>
    /\ lastOp = NoOp

GenIdle ==
    /\ gPc = "idle"
    /\ gInput = <<>>
    /\ gHistory = <<>>
    /\ gAnswer = <<>>
    /\ gTyped = <<>>
    /\ gPos = 0
    /\ gIncoming = <<>>
    /\ emitted = <<>>
    /\ gLog = <<>>
    /\ savedArg = <<>>
    /\ fileAtStart = Absent

\* ------------------------------------------------------------------------
\* The scorer on its own: a text is analysed, a sentence is added to it and
\* it is analysed again, against the same index snapshot.
\* ------------------------------------------------------------------------

\* one call: the locals and the string returned
Analysis(text, idx) ==
    LET v == Locals(text, idx)
    IN [locals |-> v, report |-> Summary(v)]

\* the scorer's variables, at rest in the other specifications
SimIdle ==
    /\ simA = <<>>
    /\ simB = <<>>
    /\ simOut = <<>>

ScoreIdle ==
    /\ sText = <<>>
    /\ sIndex = <<>>
    /\ sOut = <<>>
    /\ sPrev = <<>>
    /\ SimIdle

ScoreInit ==
    /\ StoreIdle
    /\ GenIdle
    /\ NormIdle
    /\ IndexIdle
    /\ AnalysisIdle
    /\ sText \in Texts
    /\ sIndex \in IndexChoices
    /\ sOut = <<Analysis(sText, sIndex)>>
    /\ sPrev = <<>>
    /\ SimIdle

\* the text with one more sentence is analysed
AnalyzeLonger(sentence) ==
    /\ sOut # <<>>
    /\ Len(sText) + Len(sentence) <= MaxWords
    /\ sText' = sText \o sentence
    /\ sOut' = <<Analysis(sText', sIndex)>>
    /\ sPrev' = sOut
    /\ UNCHANGED <<simA, simB, simOut>>
    /\ UNCHANGED <<sIndex, normVars, indexVars, analysisVars, storeVars, genVars>>

ScoreNext ==
    \E sentence \in SeqsUpTo(Vocab, MaxWords - Len(sText)) \ {<<>>} :
        AnalyzeLonger(sentence)

SpecScore == ScoreInit /\ [][ScoreNext]_vars


\* ---- C7 ----------------------------------------------------------------

sCur == sOut[1].locals
sBefore == sPrev[1].locals

\* the added sentence made exactly one more detector fire, and every detector
\* that fired before still fires
OneMoreDetector ==
    /\ sPrev # <<>>
    /\ Range(sBefore.indicators) \subseteq Range(sCur.indicators)
    /\ Len(sCur.indicators) = Len(sBefore.indicators) + 1

\* C7 as claimed: adding a sentence that makes one more detector fire never
\* decreases the final score (indicator weights plus similarity bonuses)
\* computed against the same index snapshot.
C7_ScoreMonotonic == OneMoreDetector => sCur.score >= sBefore.score

\* C7 amended: adding such a sentence raises the sum of the indicator weights
\* by at least 1, and does not decrease the final score when the text before
\* had no similar example (no similarity bonus to lose); the final score can
\* decrease otherwise, the added words lowering the Jaccard similarity.
C7_IndicatorPartMonotonic ==
    OneMoreDetector =>
        /\ sCur.base >= sBefore.base + 1
        /\ (sBefore.similar_msgs = <<>> => sCur.score >= sBefore.score)

\* one more detector fired, against a non-empty index, from a text that
\* already had fired detectors and no similar example
C7_Witness ==
    /\ OneMoreDetector
    /\ sIndex # EmptyIndex
    /\ sBefore.indicators # <<>>
    /\ sBefore.similar_msgs = <<>>
    /\ sCur.score > sBefore.score


\* ------------------------------------------------------------------------
\* The specification of the normalization round trip
\* ------------------------------------------------------------------------

NormInit ==
    /\ StoreIdle
    /\ GenIdle
    /\ ScoreIdle
    /\ IndexIdle
    /\ AnalysisIdle
    /\ nRaw \in Raws
    /\ nPc = "raw"
    /\ nNorm = <<>>
    /\ nOut = NoneVal
    /\ nAgain = <<>>

SpecNorm == NormInit /\ [][NormNext]_vars

\* ---- C8 ----------------------------------------------------------------

\* the raw history is in one of the three accepted shapes
IsMsg(x) == HasKey(x, "role") /\ HasKey(x, "content")
IsPair(x) == x.t = "list" /\ Len(x.d) = 2
IsKeyed(x) ==
    \/ HasKey(x, "user") /\ HasKey(x, "assistant")
    \/ HasKey(x, "question") /\ HasKey(x, "answer")

AcceptedShape(raw) ==
    /\ raw.t = "list"
    /\ \/ \A i \in 1..Len(raw.d) : IsMsg(raw.d[i])
       \/ \A i \in 1..Len(raw.d) : IsPair(raw.d[i])
       \/ \A i \in 1..Len(raw.d) : IsKeyed(raw.d[i])

\* C8: normalizing a raw history of an accepted shape, serializing the result
\* as save_history does and normalizing again gives the turns of the first
\* normalization.
C8_RoundTrip == (nPc = "reloaded" /\ AcceptedShape(nRaw)) => nAgain = nNorm

\* a round trip of a raw history of an accepted shape that has turns, one of
\* them with a value str() had to convert
C8_Witness ==
    /\ nPc = "reloaded"
    /\ AcceptedShape(nRaw)
    /\ Len(nNorm) = 2
    /\ \E i \in 1..2 : nNorm[i][2] \in {<<"None">>, <<"7">>}
    /\ nAgain = nNorm


\* ------------------------------------------------------------------------
\* The specification of the index: the scheduler thread refreshes it while a
\* request analyses a text.  The module starts with email_index = {}.
\* ------------------------------------------------------------------------

IndexInit ==
    /\ StoreIdle
    /\ GenIdle
    /\ ScoreIdle
    /\ NormIdle
    /\ AnalysisIdle
    /\ csvFile \in CsvChoices
    /\ heap = [o \in ObjIds |-> <<>>]
    /\ email_index = 1
    /\ ldPc = "idle"
    /\ ldRows = <<>>
    /\ ldParsed = 0
    /\ ldResult = "none"

IndexNext ==
    \/ \E outcome \in {"seed_failed", "open_failed", "opened"} : LoadBegin(outcome)
    \/ LoadRow
    \/ LoadInstall
    \/ \E file \in CsvChoices : EditCsv(file)
    \/ \E text \in AnTexts : AnStart(text)
    \/ AnScan
    \/ AnFinish

SpecIndex == IndexInit /\ [][IndexNext]_vars


\* ---- C4 ----------------------------------------------------------------

\* the mappings a load_csv can install: the parse of a whole file, or {}
CompleteMappings ==
    {EmptyIndex} \cup
    {ParseRows(<<>>, f.rows) : f \in {g \in CsvChoices : \A i \in 1..Len(g.rows) : ~g.rows[i].bad}}

\* C4: under every interleaving of load_csv with analyze_email_local, the
\* examples one analysis scans are exactly the complete mapping email_index
\* held when its loop began (one a load_csv installed, or {}), never entries
\* of two mappings nor part of one.
C4_ScanSeesOneSnapshot ==
    /\ anSnapshot \in CompleteMappings
    /\ anPc = "scanning" => IsPrefix(anScanned, anSnapshot)
    /\ anPc = "done" => anScanned = anSnapshot

\* an analysis scanned a non-empty mapping to its end while a load_csv
\* installed another one in the middle of its loop
C4_Witness ==
    /\ anPc = "done"
    /\ anOverlap
    /\ Len(anScanned) >= 2
    /\ heap[email_index] # anScanned
    /\ heap[email_index] # <<>>

\* ---- C10 ---------------------------------------------------------------

\* C10: when reading or parsing the example store fails, load_csv returns
\* with email_index bound to the empty mapping, and an analysis that begins
\* afterwards, before any other refresh, reports no similar example.
C10_FailedLoadEmptiesIndex ==
    ldResult = "failed" =>
        /\ heap[email_index] = <<>>
        /\ (anPc = "done" /\ anFresh) =>
              /\ anOut[1].locals.similar_msgs = <<>>
              /\ \A i \in 1..Len(anOut[1].report) : anOut[1].report[i].k # "similar"

\* a load failed on the second row of a file whose first row is similar to
\* the text analysed afterwards
C10_Witness ==
    /\ ldResult = "failed"
    /\ ldPc = "idle"
    /\ csvFile = File(BrokenRows)
    /\ anPc = "done"
    /\ anFresh
    /\ anText = <<"claim", "prize">>


\* ------------------------------------------------------------------------
\* The specification of a session: launch_ui has run update_index and
\* load_history; the front-end invokes query_generator, consumes or abandons
\* it, and clears the chat.
\* ------------------------------------------------------------------------

\* a conversation an earlier run saved
OldConversation ==
    << << <<"Dear", "customer">>,
          analyze_email_local(<<"Dear", "customer">>, EmptyIndex) >> >>

InitFiles == {Absent, Json(HistoryRecords(OldConversation))}

Init ==
    /\ ScoreIdle
    /\ NormIdle
    /\ AnalysisIdle
    /\ gPc = "idle"
    /\ gInput = <<>>
    /\ gHistory = <<>>
    /\ gAnswer = <<>>
    /\ gTyped = <<>>
    /\ gPos = 0
    /\ gIncoming = <<>>
    /\ emitted = <<>>
    /\ gLog = <<>>
    /\ savedArg = <<>>
    /\ csvFile = File(UserRows)
    /\ heap = [o \in ObjIds |-> IF o = 1 THEN ParseRows(<<>>, csvFile.rows) ELSE <<>>]
    /\ email_index = 1
    /\ ldPc = "idle"
    /\ ldRows = <<>>
    /\ ldParsed = 0
    /\ ldResult = "ok"
    /\ histFile \in InitFiles
    /\ fileAtStart = histFile
    /\ chatbot = load_history(histFile)
    /\ lastOp = NoOp

Next ==
    \/ \E user_input \in Queries : Invoke(user_input)
    \/ Stream
    \/ Finalize
    \/ Exhaust
    \/ Cancel
    \/ clear_history

Spec == Init /\ [][Next]_vars


\* ---- observations of one invocation consumed to exhaustion --------------

\* the generator has emitted its final state
Completed == gPc \in {"at208", "done"}

\* the report analyze_email_local returns for the query
FullReport == analyze_email_local(gInput, heap[email_index])

\* answer i of the new turn is a prefix of answer i + 1 and strictly shorter
StrictStep(i) ==
    /\ IsPrefix(emitted[i], emitted[i + 1])
    /\ Len(emitted[i]) < Len(emitted[i + 1])

\* the calls of save_history among the events of the invocation
SavePositions == {i \in 1..Len(gLog) : gLog[i] = "save"}

\* the conversation the invocation is to end with
ExpectedConversation == Append(gIncoming, <<gInput, FullReport>>)

\* ---- C1 ----------------------------------------------------------------

\* C1 as claimed: over all the states one exhausted invocation emitted, each
\* answer of the new turn is a prefix of the next and strictly shorter, the
\* first is empty and the last is the full report.
C1_StrictPrefixChain ==
    Completed =>
        /\ emitted[1] = <<>>
        /\ \A i \in 1..(Len(emitted) - 1) : StrictStep(i)
        /\ emitted[Len(emitted)] = FullReport

\* C1 amended: the answers emitted up to the last streamed state form a
\* strictly increasing prefix chain from the empty answer to the full report,
\* and the final emission repeats the last streamed answer, so the last two
\* emitted answers are equal.
C1_PrefixChainThenRepeat ==
    /\ emitted # <<>> => emitted[1] = <<>>
    /\ gPc \in {"at197", "at204"} =>
          \A i \in 1..(Len(emitted) - 1) : StrictStep(i)
    /\ Completed =>
          /\ Len(emitted) = Len(FullReport) + 2
          /\ \A i \in 1..(Len(emitted) - 2) : StrictStep(i)
          /\ emitted[Len(emitted) - 1] = FullReport
          /\ emitted[Len(emitted)] = FullReport

\* an invocation with an earlier turn before it was consumed to exhaustion
C1_Witness ==
    /\ gPc = "done"
    /\ gIncoming # <<>>
    /\ Len(emitted) > 3
    /\ emitted[Len(emitted)] = FullReport

\* ---- C2 ----------------------------------------------------------------

\* C2 as claimed: an exhausted invocation called save_history exactly once,
\* after its final emission (no state is emitted after the save), with the
\* fully revealed answer in the saved conversation.
C2_SaveAfterFinalEmission ==
    Completed =>
        /\ Cardinality(SavePositions) = 1
        /\ gLog[Len(gLog)] = "save"
        /\ savedArg = <<ExpectedConversation>>

\* C2 amended: an exhausted invocation called save_history exactly once,
\* after the last streamed emission and before the final one: exactly one
\* state is emitted after the save, and it is the saved conversation, which
\* holds the fully revealed answer.  An invocation not yet at its final
\* emission has not called it.
C2_SaveBeforeFinalEmission ==
    /\ Completed =>
          /\ SavePositions = {Len(gLog) - 1}
          /\ gLog[Len(gLog)] = "emit"
          /\ Len(gLog) = Len(FullReport) + 3
          /\ savedArg = <<ExpectedConversation>>
          /\ gHistory = savedArg[1]
    /\ gPc \in {"at197", "at204", "cancelled"} =>
          /\ SavePositions = {}
          /\ savedArg = <<>>

\* an invocation with an earlier turn before it was consumed to exhaustion
\* and its save was written
C2_Witness ==
    /\ gPc = "at208"
    /\ lastOp.op = "finalize"
    /\ lastOp.outcome = "ok"
    /\ Len(savedArg[1]) = 2
    /\ gLog[Len(gLog) - 1] = "save"

\* ---- C3 ----------------------------------------------------------------

\* C3: an invocation abandoned before its final emission, after the first
\* emission or after any streamed one, the one revealing the last piece
\* included, never called save_history, and the history file is what it was
\* when the invocation started (or what a clear action made it since).
C3_CancelledNeverSaves ==
    gPc = "cancelled" =>
        /\ SavePositions = {}
        /\ savedArg = <<>>
        /\ histFile = fileAtStart
        /\ load_history(histFile) = load_history(fileAtStart)

\* an invocation was abandoned after the emission that revealed the last
\* piece of the report, a conversation being persisted
C3_Witness ==
    /\ gPc = "cancelled"
    /\ lastOp.op = "cancel"
    /\ gTyped = FullReport
    /\ load_history(histFile) # <<>>
    /\ chatbot # load_history(histFile)

\* ---- C5 ----------------------------------------------------------------

\* the operation that ran last called save_history and the call failed
SaveFailed == lastOp.outcome \in {"open_failed", "write_failed"}

\* C5 as claimed: after a save_history call that failed to write (its caller
\* carried on, seeing no error), load_history returns the conversation it
\* returned before the call.
C5_FailedSaveKeepsPersisted ==
    [][SaveFailed' => load_history(histFile') = load_history(histFile)]_vars

\* ---- C6 ----------------------------------------------------------------

JustCompleted == lastOp.op = "finalize"

sCalls == Range(sOut) \cup Range(sPrev)

\* the lines of kind k of a report
LinesOf(report, k) == SelectSeq(report, LAMBDA l : l.k = k)

\* the tier and the verdict sentence the score asks for
TierOf(score) ==
    IF score >= 6 THEN "HIGH" ELSE IF score <= 2 THEN "LOW" ELSE "MEDIUM"

VerdictOf(tier) ==
    CASE tier = "HIGH" -> "VERDICT: Likely phishing. Do not interact."
      [] tier = "MEDIUM" -> "VERDICT: Possibly phishing. Verify before interacting."
      [] tier = "LOW" -> "VERDICT: Low immediate signs; stay cautious."

\* C11: the risk tier analyze_email_local reports is HIGH exactly when the
\* final score (detector weights plus similarity bonuses) is at least 6,
\* MEDIUM exactly when it is 3, 4 or 5 and LOW exactly when it is at most 2;
\* the risk line of the report carries that tier and that score, and the
\* verdict line is the sentence of the tier.
C11_TierFromScore ==
    \A c \in sCalls :
        /\ c.locals.score = c.locals.base + SimilarityBonus(c.locals.similar_msgs)
        /\ c.locals.risk = "HIGH" <=> c.locals.score >= 6
        /\ c.locals.risk = "MEDIUM" <=> c.locals.score \in 3..5
        /\ c.locals.risk = "LOW" <=> c.locals.score <= 2
        /\ LinesOf(c.report, "risk") =
              <<Ln("risk", <<TierOf(c.locals.score)>>, <<>>, c.locals.score, 0)>>
        /\ LinesOf(c.report, "verdict") =
              <<Ln("verdict", <<VerdictOf(TierOf(c.locals.score))>>, <<>>, 0, 0)>>

\* a text scoring 5 (MEDIUM), a similarity bonus being part of the 5, got a
\* sentence and scored 6 (HIGH)
C11_Witness ==
    /\ sPrev # <<>>
    /\ sBefore.score = 5
    /\ sBefore.risk = "MEDIUM"
    /\ sBefore.similar_msgs # <<>>
    /\ sCur.score = 6
    /\ sCur.risk = "HIGH"


\* ------------------------------------------------------------------------
\* simple_similarity on its own: two strings are drawn and compared both
\* ways.
\* ------------------------------------------------------------------------

\* the words of the strings compared: two spellings of one token, a word of
\* two tokens, a word without any token
SimVocab == {"claim", "Claim", "prize", "invoice.pdf", "!!!"}

SimTexts == SeqsUpTo(SimVocab, MaxSimWords)

SimInit ==
    /\ StoreIdle
    /\ GenIdle
    /\ NormIdle
    /\ IndexIdle
    /\ AnalysisIdle
    /\ sText = <<>>
    /\ sIndex = <<>>
    /\ sOut = <<>>
    /\ sPrev = <<>>
    /\ simA \in SimTexts
    /\ simB \in SimTexts
    /\ simOut = <<>>

\* simple_similarity(simA, simB) and simple_similarity(simB, simA)
Compare ==
    /\ simOut = <<>>
    /\ simOut' = <<[ab |-> simple_similarity(simA, simB),
                    ba |-> simple_similarity(simB, simA)]>>
    /\ UNCHANGED <<simA, simB, sText, sIndex, sOut, sPrev>>
    /\ UNCHANGED <<normVars, indexVars, analysisVars, storeVars, genVars>>

SimNext == Compare

SpecSim == SimInit /\ [][SimNext]_vars

\* ---- C12 ---------------------------------------------------------------

\* C12: simple_similarity(a, b) and simple_similarity(b, a) are the same
\* number; it lies in [0, 1], is 0 when a or b has no word token and is 1
\* when a and b have the same non-empty set of tokens.
C12_SimilaritySymmetricBounded ==
    simOut # <<>> =>
        LET ab == simOut[1].ab
            ba == simOut[1].ba
        IN /\ ab.d > 0 /\ ba.d > 0
           /\ ab.n * ba.d = ba.n * ab.d
           /\ 0 <= ab.n /\ ab.n <= ab.d
           /\ (Tokens(simA) = {} \/ Tokens(simB) = {}) => ab.n = 0
           /\ (Tokens(simA) = Tokens(simB) /\ Tokens(simA) # {}) => ab.n = ab.d

\* two different strings of different lengths were compared and share a
\* token without having the same tokens
C12_Witness ==
    /\ simOut # <<>>
    /\ Len(simA) < Len(simB)
    /\ 0 < simOut[1].ab.n
    /\ simOut[1].ab.n < simOut[1].ab.d
    /\ simOut[1].ba = simOut[1].ab

\* ---- C13 ---------------------------------------------------------------

\* an analysis of the example text has returned, and it scanned the three
\* examples ensure_csv_exists writes
ExampleAnalysed ==
    /\ anPc = "done"
    /\ anText = ExampleText
    /\ [i \in 1..Len(anScanned) |-> anScanned[i].eid] = <<<<"E001">>, <<"E002">>, <<"E003">>>>

\* C13: analysed against the three seeded examples, the example text fires
\* the link and the suspicious-wording detectors and not the amount detector,
\* scores at least 5 and lists E001 with the indicator "Suspicious link"
\* among the similar examples.
C13_SeededExample ==
    ExampleAnalysed =>
        LET v == anOut[1].locals
        IN /\ IndLink \in Range(v.indicators)
           /\ IndSuspicious \in Range(v.indicators)
           /\ IndAmounts \notin Range(v.indicators)
           /\ v.score >= 5
           /\ \E i \in 1..Len(v.similar_msgs) :
                 /\ v.similar_msgs[i].eid = <<"E001">>
                 /\ v.similar_msgs[i].indicator = <<"Suspicious", "link">>
           /\ \E i \in 1..Len(anOut[1].report) :
                 anOut[1].report[i] =
                     Ln("similar", <<"E001">>, <<"Suspicious", "link">>, 9, 17)

\* the file was missing, load_csv created and loaded it, and the example
\* text was analysed against it: score 6 (3 + 2 + int(3 * 9/17)), HIGH
C13_Witness ==
    /\ ExampleAnalysed
    /\ csvFile = File(SeedRows)
    /\ anFresh
    /\ anOut[1].locals.score = 6
    /\ anOut[1].locals.risk = "HIGH"
    /\ Len(anOut[1].locals.similar_msgs) = 1

\* ---- C14 ---------------------------------------------------------------

\* the turn holds the complete report for its query
FinalTurn(turn) == turn[2] = analyze_email_local(turn[1], heap[email_index])

\* C14 as claimed: in every conversation reached, invocations abandoned
\* before their final emission and continued from included, every turn
\* before the last holds the complete report for its query.
C14_PriorTurnsFinal ==
    \A i \in 1..(Len(chatbot) - 1) : FinalTurn(chatbot[i])


\* ------------------------------------------------------------------------
\* The scorer against an index of more than top_k_context examples
\* ------------------------------------------------------------------------

RankInit ==
    /\ StoreIdle
    /\ GenIdle
    /\ NormIdle
    /\ IndexIdle
    /\ AnalysisIdle
    /\ SimIdle
    /\ sText \in Texts
    /\ sIndex \in {EmptyIndex, LongIndex}
    /\ sOut = <<Analysis(sText, sIndex)>>
    /\ sPrev = <<>>

SpecRank == RankInit /\ [][ScoreNext]_vars

\* ---- C15 ---------------------------------------------------------------

\* the similarity of each example of the index to a text, in index order
SimsTo(text) ==
    [i \in 1..Len(sIndex) |-> simple_similarity(text, sIndex[i].subject \o sIndex[i].body)]

\* the rank of example i by descending similarity: 1 + the examples more
\* similar + the examples as similar that the index holds before it
RankOf(sims, i) ==
    1 + Cardinality({j \in 1..Len(sims) :
                        \/ RatGt(sims[j], sims[i])
                        \/ j < i /\ ~RatGt(sims[i], sims[j])})

AboveThreshold(sim) == 100 * sim.n > 15 * sim.d

\* the examples that are to be listed: among the first 5, above 0.15
Listed(sims) == {i \in 1..Len(sims) : RankOf(sims, i) <= 5 /\ AboveThreshold(sims[i])}

WeightOf(ind) ==
    CASE ind = "Contains external link(s)" -> 3
      [] ind = "Contains suspicious action words" -> 2
      [] OTHER -> 1

\* C15: the similar-example list of a call holds exactly the examples that
\* rank among the first 5 by descending similarity and whose similarity is
\* above 0.15, each once, in descending similarity order; the final score is
\* the sum of the weights of the fired detectors (3, 2, 1, 1, 1, each once)
\* plus floor(3 * similarity) for each listed example, and nothing for any
\* other example.
C15_SimilarityPass ==
    \A c \in sCalls :
        LET L == c.locals.similar_msgs
            inds == c.locals.indicators
            sims == SimsTo(c.locals.text)
            listed == Listed(sims)
        IN /\ Cardinality(listed) = Len(L)
           /\ \A i \in listed :
                 \E k \in 1..Len(L) :
                    /\ L[k].eid = sIndex[i].eid
                    /\ L[k].sim = sims[i]
                    /\ L[k].indicator = sIndex[i].indicator
           /\ \A k \in 1..(Len(L) - 1) : ~RatGt(L[k + 1].sim, L[k].sim)
           /\ Cardinality(Range(inds)) = Len(inds)
           /\ c.locals.score =
                 SumSeq([k \in 1..Len(inds) |-> WeightOf(inds[k])])
                 + SumSeq([k \in 1..Len(L) |-> (3 * L[k].sim.n) \div L[k].sim.d])

\* against the index of seven examples, the text before had an example among
\* the first 5 that is not above 0.15, and the text now has an example above
\* 0.15 that is not among the first 5 and two listed examples equally similar
C15_Witness ==
    /\ sPrev # <<>>
    /\ sIndex = LongIndex
    /\ LET before == SimsTo(sBefore.text)
       IN \E i \in 1..Len(sIndex) :
             /\ RankOf(before, i) <= 5
             /\ before[i].n > 0
             /\ ~AboveThreshold(before[i])
    /\ LET now == SimsTo(sCur.text)
       IN \E i \in 1..Len(sIndex) :
             /\ RankOf(now, i) > 5
             /\ AboveThreshold(now[i])
    /\ Len(sCur.similar_msgs) = 5
    /\ \E k \in 1..4 : sCur.similar_msgs[k].sim = sCur.similar_msgs[k + 1].sim
    /\ sCur.indicators # <<>>

\* ---- C16 ---------------------------------------------------------------

\* the advisories of the detectors that fire on a text, in the order link,
\* suspicious wording, attachment, generic greeting
Advisories(text) ==
       (IF LinkFires(text) THEN <<"Do not click links. Inspect carefully.">> ELSE <<>>)
    \o (IF SuspiciousFires(text)
          THEN <<"Do not provide sensitive info. Verify sender.">> ELSE <<>>)
    \o (IF AttachmentFires(text) THEN <<"Do not open attachments. Scan safely.">> ELSE <<>>)
    \o (IF GreetingFires(text) THEN <<"Generic greeting may indicate phishing.">> ELSE <<>>)

StayCautious == "No immediate danger detected; stay cautious."

\* the action lines of the report are the actions, numbered from 1
ActionLines(c) ==
    LinesOf(c.report, "action") =
        [i \in 1..Len(c.locals.actions) |-> Ln("action", <<c.locals.actions[i]>>, <<>>, i, 0)]

\* C16 as claimed: the actions are the advisories of the fired detectors
\* among link, suspicious wording, attachment and generic greeting, in that
\* order and each once, and the generic advisory is emitted exactly when no
\* indicator of any kind fired.
C16_GenericIffNoIndicator ==
    \A c \in sCalls :
        /\ c.locals.indicators = <<>> <=> StayCautious \in Range(c.locals.actions)
        /\ c.locals.indicators # <<>> => c.locals.actions = Advisories(c.locals.text)

\* C16 amended: the actions are the advisories of the fired detectors among
\* link, suspicious wording, attachment and generic greeting, in that order
\* and each once; the generic advisory is emitted, alone, exactly when none
\* of these four fired, which includes the texts on which only the amount
\* detector fired.
C16_GenericIffNoAdvisory ==
    \A c \in sCalls :
        /\ Advisories(c.locals.text) # <<>> => c.locals.actions = Advisories(c.locals.text)
        /\ Advisories(c.locals.text) = <<>> => c.locals.actions = <<StayCautious>>
        /\ ActionLines(c)

\* a text on which only the amount detector fired got the generic advisory,
\* and with one more sentence got two advisories and not the generic one
C16_Witness ==
    /\ sPrev # <<>>
    /\ sBefore.indicators = <<IndAmounts>>
    /\ sBefore.actions = <<StayCautious>>
    /\ Len(sCur.actions) = 2
    /\ StayCautious \notin Range(sCur.actions)
    /\ Len(sCur.indicators) = 3


\* ------------------------------------------------------------------------
\* Normalization of flat sequences of role/content messages
\* ------------------------------------------------------------------------

MsgItems == {x \in RawItems : HasKey(x, "role") /\ HasKey(x, "content")}

MsgInit ==
    /\ StoreIdle
    /\ GenIdle
    /\ ScoreIdle
    /\ IndexIdle
    /\ AnalysisIdle
    /\ nRaw \in {ListVal(items) : items \in SeqsUpTo(MsgItems, MaxMsgs)}
    /\ nPc = "raw"
    /\ nNorm = <<>>
    /\ nOut = NoneVal
    /\ nAgain = <<>>

SpecMsgs == MsgInit /\ [][NormNext]_vars

\* ---- C17 ---------------------------------------------------------------

IsUser(m) == m.d.role = StrVal(<<"user">>)
IsReply(m) == m.d.role \in {StrVal(<<"assistant">>), StrVal(<<"system">>)}

\* the user message message j answers: the last one before j, provided no
\* assistant/system message lies between the two; 0 if there is none
Answered(msgs, j) ==
    LET users == {i \in 1..(j - 1) : IsUser(msgs[i])}
    IN IF users = {} THEN 0
       ELSE LET u == CHOOSE i \in users : \A k \in users : k <= i
            IN IF \E k \in (u + 1)..(j - 1) : IsReply(msgs[k]) THEN 0 ELSE u

\* the positions of the assistant/system messages that close a turn, in order
Closers(msgs) ==
    SelectSeq([j \in 1..Len(msgs) |-> j],
              LAMBDA j : IsReply(msgs[j]) /\ Answered(msgs, j) # 0)

\* C17: on a flat sequence of role/content messages the turns of
\* normalize_history are, in input order, one per assistant/system message
\* that follows a user message with no other assistant/system message in
\* between: the content of the last such user message and its own content
\* as strings.  A user message not followed so, and an assistant/system
\* message not preceded so, give no turn, and the turns are never more than
\* the assistant/system messages.
C17_RoleContentTurns ==
    nPc \in {"normalized", "serialized", "reloaded"} =>
        LET msgs == nRaw.d
            closers == Closers(msgs)
        IN /\ nNorm = [k \in 1..Len(closers) |->
                         <<Str(msgs[Answered(msgs, closers[k])].d.content),
                           Str(msgs[closers[k]].d.content)>>]
           /\ Len(nNorm) <= Cardinality({j \in 1..Len(msgs) : IsReply(msgs[j])})

\* five messages, user, user, assistant, system, user, gave one turn: the
\* first and the last user message and the system message gave none
C17_Witness ==
    /\ nPc = "normalized"
    /\ Len(nRaw.d) = 5
    /\ IsUser(nRaw.d[1]) /\ IsUser(nRaw.d[2]) /\ IsReply(nRaw.d[3])
    /\ IsReply(nRaw.d[4]) /\ IsUser(nRaw.d[5])
    /\ nRaw.d[1] # nRaw.d[2]
    /\ Len(nNorm) = 1
    /\ nNorm[1][1] = Str(nRaw.d[2].d.content)

\* ---- C18 ---------------------------------------------------------------

\* a clear has just completed while an invocation that started before it is
\* suspended in its loop
ClearedWhileStreaming ==
    /\ lastOp.op = "clear"
    /\ lastOp.outcome = "ok"
    /\ gPc \in {"at197", "at204"}

\* C18: once a clear has completed, the persisted conversation stays empty
\* until an invocation started after the clear finalizes.  Stated for the
\* step that follows the clear: taken while an invocation that started before
\* the clear is still in its loop, whatever it is (the finalization of that
\* invocation included), it leaves no turn in HISTORY_FILE.
C18_ClearedStaysEmpty ==
    [][ClearedWhileStreaming => load_history(histFile') = <<>>]_vars

=============================================================================
